---- MODULE Spec2Model ----
(***************************************************************************)
(* A model of src/app.py: the upload handler (POST /images), the image     *)
(* extractor it calls, and the two directories they share.                 *)
(*                                                                         *)
(* Each worker of the server handles one request at a time, start to       *)
(* finish; workers interleave at every file-system operation.  The bytes   *)
(* of an uploaded document are opaque: what PdfReader finds in them (the   *)
(* next image, a parse error) is chosen by the environment                *)
(* while the extractor iterates, one image per step.                       *)
(***************************************************************************)
EXTENDS Integers, Sequences, FiniteSets, TLC

\* ------------------------------------------------------------------ bounds
\* Distinct image payloads (byte strings) a document may hold.
MaxPayload == 4
\* Values generate_random_number may return (stands for the 10^30 strings).
NumRandom == 2
\* Images the reader enumerates in one behaviour: of one request with any
\* document, of one request with a document of PNG images only, and of the
\* concurrent requests together.
MaxImages == 2
MaxPngImages == 3
ServerMaxImages == 2
\* Distinct image payloads the documents of the concurrent requests hold.
ServerMaxPayload == 2
\* Concurrent requests, each on a worker of its own.
NumWorkers == 2

\* ------------------------------------------------------- program constants
\* app.py:16
ALLOWED_EXTENSIONS == {<<"p", "d", "f">>}
\* app.py:17
MAX_FILE_SIZE == 2 * 1024 * 1024
\* app.py:90
TG_Channel == "@UNKNOWN_X_1337_BOT"
\* app.py:54
JP2_EXTENSIONS == {".jp2", ".jpx"}

\* -------------------------------------------------------------- data
Payloads == 1..MaxPayload
\* Declared names of embedded images: <<stem, extension as declared>>.
ImageNames == {<<"Im0", ".png">>, <<"Im1", ".JP2">>, <<"Im2", ".jpx">>}
\* An embedded image as pypdf yields it: image.data and image.name.
EmbeddedImages == [data : Payloads, name : ImageNames]
PngImages == {image \in EmbeddedImages : image.name[2] = ".png"}
\* What the documents of a behaviour hold: their images, and how many of them
\* the readers enumerate in all.
AnyDocument == [images |-> EmbeddedImages, limit |-> MaxImages]
PngDocument == [images |-> PngImages, limit |-> MaxPngImages]
ServerDocuments ==
    [images |-> {image \in EmbeddedImages : image.data <= ServerMaxPayload},
     limit |-> ServerMaxImages]

\* File names a client may send, as character sequences.
Filenames ==
    { <<>>,
      <<"a", ".", "p", "d", "f">>,
      <<"a", ".", "P", "d", "F">>,
      <<"a", ".", "t", "x", "t">>,
      <<"p", "d", "f">>,
      <<"a", ".", "p", "d", "f", ".", "t", "x", "t">>,
      <<".", "p", "d", "f">> }
Sizes == {0, MAX_FILE_SIZE - 1, MAX_FILE_SIZE, MAX_FILE_SIZE + 1}

\* A function as a finite map: add or replace a key, drop a key.
Put(f, k, v) == (k :> v) @@ f
Drop(f, k) == [x \in DOMAIN f \ {k} |-> f[x]]
EmptyMap == [x \in {} |-> 0]

\* ------------------------------------------------------ helper functions
\* app.py:30-31.  The set of values one call may return.
generate_random_number == 1..NumRandom

\* str.lower() on one character of the alphabet used here.
LowerChar(c) ==
    CASE c = "P" -> "p"
      [] c = "D" -> "d"
      [] c = "F" -> "f"
      [] OTHER -> c
Lower(s) == [i \in 1..Len(s) |-> LowerChar(s[i])]

\* Index of the last "." of s, 0 when there is none.
RECURSIVE LastDot(_)
LastDot(s) ==
    IF s = <<>> THEN 0
    ELSE IF s[Len(s)] = "." THEN Len(s)
    ELSE LastDot(SubSeq(s, 1, Len(s) - 1))

\* filename.rsplit(".", 1)[1], for a filename that holds a ".".
RSplitLast(s) == SubSeq(s, LastDot(s) + 1, Len(s))

\* app.py:33-34
allowed_file(filename) ==
    /\ LastDot(filename) > 0
    /\ Lower(RSplitLast(filename)) \in ALLOWED_EXTENSIONS

\* app.py:46.  Python's hash() of a bytes object is a 64-bit value: it maps
\* the byte strings onto fewer values than there are byte strings.  Here the
\* payloads 1 and 2 share a hash and every other payload has one of its own.
hash(image_data) == IF image_data = 1 THEN 2 ELSE image_data

\* app.py:51.  os.path.splitext(image.name)[1].lower()
LowerExt(e) ==
    CASE e = ".JP2" -> ".jp2"
      [] e = ".JPX" -> ".jpx"
      [] e = ".PNG" -> ".png"
      [] OTHER -> e
splitext_lower(name) == LowerExt(name[2])

\* NeedsConversion with ".jpx" left out of the list of line 54.
NeedsConversion_Jp2Only(ext) == ext = ".jp2"

\* app.py:54
NeedsConversion(ext) == ext \in JP2_EXTENSIONS

\* Contents of a file of the images directory.
Raw(d) == [fmt |-> "raw", data |-> d]
Truncated == [fmt |-> "truncated", data |-> 0]

\* app.py:56-61.  The PNG bytes a decodable JPEG2000 payload is re-encoded as
\* (after the conversion to RGB of an image of mode RGBA or P): they are the
\* payload's pixels in another format, never the payload's own bytes.
ConvertToPng(d) == [fmt |-> "png", data |-> d]

\* app.py:68-74
NamePrefix(image_count) ==
    IF image_count = 0 THEN "user-img-"
    ELSE IF image_count = 1 THEN "sign-img-"
    ELSE ""
Filename(image_count, random_number, ext) ==
    [prefix |-> NamePrefix(image_count), rnd |-> random_number, ext |-> ext]

\* app.py:88-91
make_response(data, status) ==
    [status |-> status, body |-> Put(data, "TG_Channel", TG_Channel)]

\* str(n) for n >= 0, as the sequence of its decimal digits.
Digit(n) == <<"0", "1", "2", "3", "4", "5", "6", "7", "8", "9">>[n + 1]
RECURSIVE str(_)
str(n) == IF n < 10 THEN <<Digit(n)>> ELSE str(n \div 10) \o <<Digit(n % 10)>>

\* url_for("download_file", filename=f, _external=True)
url_for(f) == [endpoint |-> "download_file", filename |-> f]

\* ImagesDict with the extra images taken from the second name on.
ImagesDict_ExtraFromSecond(extracted_images) ==
    LET n == Len(extracted_images)
        user == IF n >= 1 THEN "user-image" :> url_for(extracted_images[1])
                ELSE EmptyMap
        sign == IF n >= 2 THEN "sign-image" :> url_for(extracted_images[2])
                ELSE EmptyMap
        extra == IF n > 2
                 THEN "extra-images" :>
                        [i \in 1..(n - 1) |-> url_for(extracted_images[i + 1])]
                 ELSE EmptyMap
    IN user @@ sign @@ extra

\* app.py:134-140
ImagesDict(extracted_images) ==
    LET n == Len(extracted_images)
        user == IF n >= 1 THEN "user-image" :> url_for(extracted_images[1])
                ELSE EmptyMap
        sign == IF n >= 2 THEN "sign-image" :> url_for(extracted_images[2])
                ELSE EmptyMap
        extra == IF n > 2
                 THEN "extra-images" :>
                        [i \in 1..(n - 2) |-> url_for(extracted_images[i + 2])]
                 ELSE EmptyMap
    IN user @@ sign @@ extra

\* app.py:133-148
ExtractionResponse(extracted_images) ==
    IF extracted_images # <<>>
    THEN make_response(
           [message |-> "Images extracted successfully",
            totalImages |-> str(Len(extracted_images)),
            images |-> ImagesDict(extracted_images)], 200)
    ELSE make_response([message |-> "No images found in the PDF"], 200)

\* ValidationError with the size check off by one: a file of exactly
\* MAX_FILE_SIZE bytes is rejected.
ValidationError_SizeExclusive(req) ==
    IF ~req.hasFile THEN "No file part"
    ELSE IF req.filename = <<>> THEN "No selected file"
    ELSE IF ~allowed_file(req.filename) THEN "Invalid file type"
    ELSE IF req.size >= MAX_FILE_SIZE THEN "File size exceeds 2 MB limit"
    ELSE ""

\* app.py:102-117.  The error a request is rejected with, "" when it passes.
ValidationError(req) ==
    IF ~req.hasFile THEN "No file part"
    ELSE IF req.filename = <<>> THEN "No selected file"
    ELSE IF ~allowed_file(req.filename) THEN "Invalid file type"
    ELSE IF req.size > MAX_FILE_SIZE THEN "File size exceeds 2 MB limit"
    ELSE ""

\* An uncaught exception: Flask answers 500 with an HTML no JSON body.
InternalServerError == [status |-> 500, body |-> EmptyMap]

\* ------------------------------------------------------------------ state
VARIABLES
    uploads,          \* UPLOAD_FOLDER: pdf name -> [owner, intact]
    images,           \* EXTRACTED_FOLDER: filename -> contents
    pc,               \* where each worker's handler stands
    request,          \* the request a worker validates: [hasFile, filename, size]
    pdf_path,         \* the temporary PDF's name (0: none yet)
    seen_images,      \* hashes of the payloads seen in this run
    image_count,      \* the position counter
    extracted_files,  \* the list the extractor returns
    cur,              \* the output file that is open: [filename, data]
    response,         \* the response: [status, body]
    \* History, read by the properties only:
    nread,            \* images enumerated so far, by all runs (the model's bound)
    nimages,          \* images enumerated by this run
    encountered,      \* the payloads this run enumerated
    lastImage,        \* the image this run enumerated last
    log,              \* what logging.error recorded for this request
    created           \* the files this run opened: [filename, data, image]

shared == <<uploads, images, nread>>
locals == <<pc, request, pdf_path, seen_images, image_count,
            extracted_files, cur, response>>
history == <<nimages, encountered, lastImage, log, created>>
vars == <<shared, locals, history>>

Workers == DOMAIN pc

Requests ==
    {[hasFile |-> FALSE, filename |-> <<>>, size |-> 0]}
        \cup [hasFile : {TRUE}, filename : Filenames, size : Sizes]

NoRequest == [hasFile |-> FALSE, filename |-> <<>>, size |-> 0]
NoResponse == [status |-> 0, body |-> EmptyMap]
NoImage == [data |-> 0, name |-> <<"", "">>]
NoOutput == [filename |-> Filename(0, 0, ""), data |-> Truncated]

\* The server with the workers W, before any request.
InitWith(W) ==
    /\ uploads = EmptyMap
    /\ images = EmptyMap
    /\ nread = 0
    /\ pc = [r \in W |-> "idle"]
    /\ request = [r \in W |-> NoRequest]
    /\ pdf_path = [r \in W |-> 0]
    /\ seen_images = [r \in W |-> {}]
    /\ image_count = [r \in W |-> 0]
    /\ extracted_files = [r \in W |-> <<>>]
    /\ cur = [r \in W |-> NoOutput]
    /\ response = [r \in W |-> NoResponse]
    /\ nimages = [r \in W |-> 0]
    /\ encountered = [r \in W |-> {}]
    /\ lastImage = [r \in W |-> NoImage]
    /\ log = [r \in W |-> <<>>]
    /\ created = [r \in W |-> <<>>]

Init == InitWith({1})
InitServer == InitWith(1..NumWorkers)

\* logging.error(f"{msg}: {e}"), e the exception of the operation `cause`.
LogError(r, msg, cause) ==
    log' = [log EXCEPT ![r] = Append(@, [msg |-> msg, cause |-> cause])]

\* ------------------------------------------------------------ upload_file
\* app.py:102-117.  A request that fails a check is answered 400.
Reject(r) ==
    /\ pc[r] = "idle"
    /\ \E req \in Requests :
        /\ ValidationError(req) # ""
        /\ request' = [request EXCEPT ![r] = req]
        /\ response' = [response EXCEPT ![r] =
                          make_response([error |-> ValidationError(req)], 400)]
    /\ pc' = [pc EXCEPT ![r] = "done"]
    /\ UNCHANGED <<shared, pdf_path, seen_images, image_count,
                   extracted_files, cur, history>>

\* app.py:102-121.  A request that passes the checks gets a temporary name.
Accept(r) ==
    /\ pc[r] = "idle"
    /\ \E req \in Requests :
        /\ ValidationError(req) = ""
        /\ request' = [request EXCEPT ![r] = req]
    /\ \E random_number \in generate_random_number :
        pdf_path' = [pdf_path EXCEPT ![r] = random_number]
    /\ pc' = [pc EXCEPT ![r] = "save"]
    /\ UNCHANGED <<shared, seen_images, image_count,
                   extracted_files, cur, response, history>>

\* app.py:122.  file.save(pdf_path) creates or overwrites the temporary PDF.
\* The handler reads nothing of the request after this line.
SavePdf(r) ==
    /\ pc[r] = "save"
    /\ uploads' = Put(uploads, pdf_path[r], [owner |-> r, intact |-> TRUE])
    /\ request' = [request EXCEPT ![r] = NoRequest]
    /\ pc' = [pc EXCEPT ![r] = "open"]
    /\ UNCHANGED <<images, nread, pdf_path, seen_images, image_count,
                   extracted_files, cur, response, history>>

\* app.py:122.  file.save raises (the open fails, or the copy fails and leaves
\* a truncated file); nothing catches it and Flask answers 500.
SavePdfFailure(r) ==
    /\ pc[r] = "save"
    /\ \E partial \in BOOLEAN :
        uploads' = IF partial
                   THEN Put(uploads, pdf_path[r], [owner |-> r, intact |-> FALSE])
                   ELSE uploads
    /\ request' = [request EXCEPT ![r] = NoRequest]
    /\ response' = [response EXCEPT ![r] = InternalServerError]
    /\ pc' = [pc EXCEPT ![r] = "done"]
    /\ UNCHANGED <<images, nread, pdf_path, seen_images, image_count,
                   extracted_files, cur, history>>

\* ------------------------------------------------ extract_images_from_pdf
\* app.py:37-41.  PdfReader(pdf_path) reads the whole file; the run's list,
\* set and counter start empty.
OpenReader(r) ==
    /\ pc[r] = "open"
    /\ pdf_path[r] \in DOMAIN uploads
    /\ uploads[pdf_path[r]].intact
    /\ seen_images' = [seen_images EXCEPT ![r] = {}]
    /\ image_count' = [image_count EXCEPT ![r] = 0]
    /\ extracted_files' = [extracted_files EXCEPT ![r] = <<>>]
    /\ pc' = [pc EXCEPT ![r] = "loop"]
    /\ UNCHANGED <<shared, request, pdf_path, cur, response, history>>

\* app.py:39, 83-86.  PdfReader raises (the file is gone, truncated, or no
\* PDF); the handler of line 83 logs it and the empty list is returned.
OpenReaderFailure(r) ==
    /\ pc[r] = "open"
    /\ extracted_files' = [extracted_files EXCEPT ![r] = <<>>]
    /\ pc' = [pc EXCEPT ![r] = "remove"]
    /\ LogError(r, "Failed to extract images", "parse")
    /\ UNCHANGED <<shared, request, pdf_path, seen_images, image_count,
                   cur, response, nimages, encountered, lastImage, created>>

\* ReadFailure with the list emptied by the handler of line 83.
ReadFailure_EmptiesList(r) ==
    /\ pc[r] = "loop"
    /\ pc' = [pc EXCEPT ![r] = "remove"]
    /\ extracted_files' = [extracted_files EXCEPT ![r] = <<>>]
    /\ LogError(r, "Failed to extract images", "parse")
    /\ UNCHANGED <<shared, request, pdf_path, seen_images, image_count,
                   cur, response, nimages, encountered, lastImage, created>>

\* app.py:43-45, 83-86.  Enumerating the pages or reading an image raises;
\* the handler of line 83 logs it and the list built so far is returned.
ReadFailure(r) ==
    /\ pc[r] = "loop"
    /\ pc' = [pc EXCEPT ![r] = "remove"]
    /\ LogError(r, "Failed to extract images", "parse")
    /\ UNCHANGED <<shared, request, pdf_path, seen_images, image_count,
                   extracted_files, cur, response, nimages, encountered,
                   lastImage, created>>

\* app.py:43, 86.  Both loops are exhausted; the list is returned.
EndOfDocument(r) ==
    /\ pc[r] = "loop"
    /\ pc' = [pc EXCEPT ![r] = "remove"]
    /\ UNCHANGED <<shared, request, pdf_path, seen_images, image_count,
                   extracted_files, cur, response, history>>

\* app.py:43-45.  The run enumerates `image`, the document's next image: the
\* two loops take the images in page order, then in the order within the
\* page, and hold no state of their own (the set, the counter and the list
\* are created before the outer loop).
Enumerates(r, image, doc) ==
    /\ pc[r] = "loop"
    /\ nread < doc.limit
    /\ nread' = nread + 1
    /\ nimages' = [nimages EXCEPT ![r] = @ + 1]
    /\ lastImage' = [lastImage EXCEPT ![r] = image]
    /\ encountered' = [encountered EXCEPT ![r] = @ \cup {image.data}]

\* IsDuplicate with the seen set never consulted.
IsDuplicate_Never(seen, image_data) == FALSE

\* app.py:46-47
IsDuplicate(seen, image_data) == hash(image_data) \in seen

\* app.py:51-62.  What is written for an image whose conversion, when it
\* needs one, succeeds: [data, ext].
OutputOf(image) ==
    LET ext == splitext_lower(image.name)
    IN  IF NeedsConversion(ext)
        THEN [data |-> ConvertToPng(image.data), ext |-> ".png"]
        ELSE [data |-> Raw(image.data), ext |-> ext]

\* app.py:46-48.  The payload's hash was seen: the image is skipped.
SkipDuplicate(r, doc) ==
    /\ \E image \in doc.images :
        /\ Enumerates(r, image, doc)
        /\ IsDuplicate(seen_images[r], image.data)
    /\ UNCHANGED <<uploads, images, locals, log, created>>

\* app.py:49-65.  Decoding or re-encoding a JPEG2000 payload raises: the
\* error is logged and the loop continues with the next image.
ConversionFailure(r, doc) ==
    /\ \E image \in doc.images :
        /\ Enumerates(r, image, doc)
        /\ ~IsDuplicate(seen_images[r], image.data)
        /\ NeedsConversion(splitext_lower(image.name))
        /\ seen_images' = [seen_images EXCEPT ![r] = @ \cup {hash(image.data)}]
    /\ LogError(r, "JP2 Conversion Failed", "convert")
    /\ UNCHANGED <<uploads, images, pc, request, pdf_path, image_count,
                   extracted_files, cur, response, created>>

\* app.py:49-77.  A new payload is converted if needed and named, and
\* open(file_path, "wb") creates the file or truncates the one of that name.
OpenOutput(r, doc) ==
    /\ \E image \in doc.images, random_number \in generate_random_number :
        LET out == OutputOf(image)
            filename == Filename(image_count[r], random_number, out.ext)
        IN  /\ Enumerates(r, image, doc)
            /\ ~IsDuplicate(seen_images[r], image.data)
            /\ seen_images' = [seen_images EXCEPT ![r] = @ \cup {hash(image.data)}]
            /\ images' = Put(images, filename, Truncated)
            /\ cur' = [cur EXCEPT ![r] = [filename |-> filename, data |-> out.data]]
            /\ created' = [created EXCEPT ![r] = Append(@,
                    [filename |-> filename, data |-> out.data, image |-> image])]
    /\ pc' = [pc EXCEPT ![r] = "write"]
    /\ UNCHANGED <<uploads, request, pdf_path, image_count,
                   extracted_files, response, log>>

\* app.py:77, 83-86.  open(file_path, "wb") raises: no file is created, the
\* handler of line 83 logs it and the list built so far is returned.
OpenOutputFailure(r, doc) ==
    /\ \E image \in doc.images :
        /\ Enumerates(r, image, doc)
        /\ ~IsDuplicate(seen_images[r], image.data)
        /\ seen_images' = [seen_images EXCEPT ![r] = @ \cup {hash(image.data)}]
    /\ pc' = [pc EXCEPT ![r] = "remove"]
    /\ LogError(r, "Failed to extract images", "open")
    /\ UNCHANGED <<uploads, images, request, pdf_path, image_count,
                   extracted_files, cur, response, created>>

\* app.py:78-81.  The bytes are written and the file closed; the name joins
\* the list and the counter advances.
WriteOutput(r) ==
    /\ pc[r] = "write"
    /\ images' = Put(images, cur[r].filename, cur[r].data)
    /\ extracted_files' = [extracted_files EXCEPT ![r] = Append(@, cur[r].filename)]
    /\ image_count' = [image_count EXCEPT ![r] = @ + 1]
    /\ pc' = [pc EXCEPT ![r] = "loop"]
    /\ UNCHANGED <<uploads, nread, request, pdf_path, seen_images,
                   cur, response, history>>

\* app.py:78, 83-86.  fp.write raises: the file stays as it is on disk, the
\* handler of line 83 logs it and the list built so far is returned.
WriteOutputFailure(r) ==
    /\ pc[r] = "write"
    /\ pc' = [pc EXCEPT ![r] = "remove"]
    /\ LogError(r, "Failed to extract images", "write")
    /\ UNCHANGED <<shared, request, pdf_path, seen_images, image_count,
                   extracted_files, cur, response, nimages, encountered,
                   lastImage, created>>

\* ------------------------------------------------- upload_file, continued
\* app.py:127-148.  os.remove(pdf_path) deletes the temporary PDF and the
\* response is built from the returned list.
RemovePdf(r) ==
    /\ pc[r] = "remove"
    /\ pdf_path[r] \in DOMAIN uploads
    /\ uploads' = Drop(uploads, pdf_path[r])
    /\ response' = [response EXCEPT ![r] = ExtractionResponse(extracted_files[r])]
    /\ pc' = [pc EXCEPT ![r] = "done"]
    /\ UNCHANGED <<images, nread, request, pdf_path, seen_images,
                   image_count, extracted_files, cur, history>>

\* app.py:127-148.  os.remove raises (the file is gone, or the system refuses):
\* it is logged, and the response is built from the returned list.
RemovePdfFailure(r) ==
    /\ pc[r] = "remove"
    /\ response' = [response EXCEPT ![r] = ExtractionResponse(extracted_files[r])]
    /\ pc' = [pc EXCEPT ![r] = "done"]
    /\ LogError(r, "Failed to delete PDF", "remove")
    /\ UNCHANGED <<shared, request, pdf_path, seen_images, image_count,
                   extracted_files, cur, nimages, encountered, lastImage, created>>

\* ---------------------------------------------------------- specifications
\* One request, handled alone; its document holds any images.
Next ==
    \/ \E r \in Workers : Reject(r)
    \/ \E r \in Workers : Accept(r)
    \/ \E r \in Workers : SavePdf(r)
    \/ \E r \in Workers : SavePdfFailure(r)
    \/ \E r \in Workers : OpenReader(r)
    \/ \E r \in Workers : OpenReaderFailure(r)
    \/ \E r \in Workers : ReadFailure(r)
    \/ \E r \in Workers : EndOfDocument(r)
    \/ \E r \in Workers : SkipDuplicate(r, AnyDocument)
    \/ \E r \in Workers : ConversionFailure(r, AnyDocument)
    \/ \E r \in Workers : OpenOutput(r, AnyDocument)
    \/ \E r \in Workers : OpenOutputFailure(r, AnyDocument)
    \/ \E r \in Workers : WriteOutput(r)
    \/ \E r \in Workers : WriteOutputFailure(r)
    \/ \E r \in Workers : RemovePdf(r)
    \/ \E r \in Workers : RemovePdfFailure(r)

Spec == Init /\ [][Next]_vars

\* One request, handled alone; its document holds PNG images only.
NextPng ==
    \/ \E r \in Workers : Reject(r)
    \/ \E r \in Workers : Accept(r)
    \/ \E r \in Workers : SavePdf(r)
    \/ \E r \in Workers : SavePdfFailure(r)
    \/ \E r \in Workers : OpenReader(r)
    \/ \E r \in Workers : OpenReaderFailure(r)
    \/ \E r \in Workers : ReadFailure(r)
    \/ \E r \in Workers : EndOfDocument(r)
    \/ \E r \in Workers : SkipDuplicate(r, PngDocument)
    \/ \E r \in Workers : OpenOutput(r, PngDocument)
    \/ \E r \in Workers : OpenOutputFailure(r, PngDocument)
    \/ \E r \in Workers : WriteOutput(r)
    \/ \E r \in Workers : WriteOutputFailure(r)
    \/ \E r \in Workers : RemovePdf(r)
    \/ \E r \in Workers : RemovePdfFailure(r)

SpecPng == Init /\ [][NextPng]_vars

\* NumWorkers requests, each on a worker of its own, handled concurrently.
NextServer ==
    \/ \E r \in Workers : Reject(r)
    \/ \E r \in Workers : Accept(r)
    \/ \E r \in Workers : SavePdf(r)
    \/ \E r \in Workers : SavePdfFailure(r)
    \/ \E r \in Workers : OpenReader(r)
    \/ \E r \in Workers : OpenReaderFailure(r)
    \/ \E r \in Workers : ReadFailure(r)
    \/ \E r \in Workers : EndOfDocument(r)
    \/ \E r \in Workers : SkipDuplicate(r, ServerDocuments)
    \/ \E r \in Workers : ConversionFailure(r, ServerDocuments)
    \/ \E r \in Workers : OpenOutput(r, ServerDocuments)
    \/ \E r \in Workers : OpenOutputFailure(r, ServerDocuments)
    \/ \E r \in Workers : WriteOutput(r)
    \/ \E r \in Workers : WriteOutputFailure(r)
    \/ \E r \in Workers : RemovePdf(r)
    \/ \E r \in Workers : RemovePdfFailure(r)

SpecServer == InitServer /\ [][NextServer]_vars

\* ------------------------------------------------------------ properties
\* The operations a request's error log names as having raised.
Logged(r, cause) == \E i \in 1..Len(log[r]) : log[r][i].cause = cause

\* The extractor of request r has returned (the handler holds its list).
Returned(r) == pc[r] = "remove" \/ (pc[r] = "done" /\ response[r].status = 200)

\* A file name ends with ".pdf", whatever the case of its letters.
EndsWithPdf(f) ==
    /\ Len(f) >= 4
    /\ f[Len(f) - 3] = "."
    /\ f[Len(f) - 2] \in {"p", "P"}
    /\ f[Len(f) - 1] \in {"d", "D"}
    /\ f[Len(f)] \in {"f", "F"}

\* The message of the first check a request fails, in the order of the
\* checks; "" for a request that passes all four.
FirstFailingCheck(req) ==
    CASE ~req.hasFile -> "No file part"
      [] req.hasFile /\ req.filename = <<>> -> "No selected file"
      [] req.hasFile /\ req.filename # <<>> /\ ~EndsWithPdf(req.filename)
            -> "Invalid file type"
      [] req.hasFile /\ req.filename # <<>> /\ EndsWithPdf(req.filename)
            /\ req.size >= 2 * 1024 * 1024 + 1
            -> "File size exceeds 2 MB limit"
      [] OTHER -> ""

\* C9: POST /images rejects a request with status 400 and exactly one error
\* message, that of the first check it fails (file part, file name,
\* extension pdf, size > 2*1024*1024), and every such response carries the
\* TG_Channel field; a request goes on to the saving of its PDF only if it
\* fails no check, so a .pdf file of exactly 2*1024*1024 bytes is accepted
\* and one of 2*1024*1024+1 bytes is rejected.
C9_ValidationOrder ==
    \A r \in Workers :
        /\ pc[r] = "save" => FirstFailingCheck(request[r]) = ""
        /\ (pc[r] = "done" /\ response[r].status = 400) =>
            /\ FirstFailingCheck(request[r]) # ""
            /\ DOMAIN response[r].body = {"error", "TG_Channel"}
            /\ response[r].body.error = FirstFailingCheck(request[r])
        /\ (pc[r] = "done" /\ pdf_path[r] = 0) => response[r].status = 400

\* C9's case: a .pdf file one byte over the limit is rejected for its size.
C9_Witness ==
    \E r \in Workers :
        /\ pc[r] = "done"
        /\ request[r].hasFile
        /\ EndsWithPdf(request[r].filename)
        /\ request[r].size = 2 * 1024 * 1024 + 1
        /\ response[r].status = 400
        /\ response[r].body.error = "File size exceeds 2 MB limit"

\* The number a sequence of decimal digits denotes.
DigitValue(c) ==
    CASE c = "0" -> 0 [] c = "1" -> 1 [] c = "2" -> 2 [] c = "3" -> 3
      [] c = "4" -> 4 [] c = "5" -> 5 [] c = "6" -> 6 [] c = "7" -> 7
      [] c = "8" -> 8 [] c = "9" -> 9
RECURSIVE DecimalValue(_)
DecimalValue(s) ==
    IF s = <<>> THEN 0
    ELSE 10 * DecimalValue(SubSeq(s, 1, Len(s) - 1)) + DigitValue(s[Len(s)])
IsDecimalOf(s, n) ==
    /\ Len(s) >= 1
    /\ \A i \in 1..Len(s) :
        s[i] \in {"0", "1", "2", "3", "4", "5", "6", "7", "8", "9"}
    /\ (Len(s) > 1 => s[1] # "0")
    /\ DecimalValue(s) = n

\* A download URL names the file f.
IsUrlOf(u, f) == u.endpoint = "download_file" /\ u.filename = f

\* C4: the response to an accepted upload whose extraction returned the
\* list L of N file names: for N = 0 the message "No images found in the
\* PDF" and neither "images" nor "totalImages"; for N >= 1 totalImages is
\* the decimal string of N, images["user-image"] is the URL of L[0],
\* images["sign-image"] is there iff N >= 2 and is the URL of L[1],
\* images["extra-images"] is there iff N > 2 and is the URLs of L[2..] in
\* order; "user-image" names the file "user-img-..." and "sign-image" the
\* file "sign-img-...".
C4_ResponseMapsList ==
    \A r \in Workers :
        (pc[r] = "done" /\ response[r].status = 200) =>
            LET L == extracted_files[r]
                N == Len(L)
                body == response[r].body
            IN  /\ N = 0 =>
                    /\ body.message = "No images found in the PDF"
                    /\ "images" \notin DOMAIN body
                    /\ "totalImages" \notin DOMAIN body
                /\ N >= 1 =>
                    /\ IsDecimalOf(body.totalImages, N)
                    /\ "user-image" \in DOMAIN body.images
                    /\ IsUrlOf(body.images["user-image"], L[1])
                    /\ L[1].prefix = "user-img-"
                    /\ "sign-image" \in DOMAIN body.images <=> N >= 2
                    /\ N >= 2 =>
                        /\ IsUrlOf(body.images["sign-image"], L[2])
                        /\ L[2].prefix = "sign-img-"
                    /\ "extra-images" \in DOMAIN body.images <=> N > 2
                    /\ N > 2 =>
                        /\ Len(body.images["extra-images"]) = N - 2
                        /\ \A i \in 1..(N - 2) :
                            IsUrlOf(body.images["extra-images"][i], L[i + 2])

\* C4's case: a response that lists a user image, a signature and an extra.
C4_Witness ==
    \E r \in Workers :
        /\ pc[r] = "done"
        /\ response[r].status = 200
        /\ Len(extracted_files[r]) = 3
        /\ "extra-images" \in DOMAIN response[r].body.images

\* C1: when a run enumerates an image whose bytes it has enumerated before,
\* the step writes no file, adds nothing to the list, leaves the position
\* counter alone and leaves no output open: only the first occurrence of a
\* payload, in the order of enumeration, can produce a file.
C1_LaterOccurrenceSkipped ==
    [][\A r \in Workers :
        (nimages'[r] = nimages[r] + 1 /\ lastImage'[r].data \in encountered[r]) =>
            /\ images' = images
            /\ extracted_files'[r] = extracted_files[r]
            /\ image_count'[r] = image_count[r]
            /\ created'[r] = created[r]
            /\ pc'[r] = "loop"]_vars

\* C1's case: a run wrote a file for a payload and then met the payload again.
C1_Witness ==
    \E r \in Workers :
        /\ pc[r] = "loop"
        /\ nimages[r] > Cardinality(encountered[r])
        /\ \E i \in 1..Len(created[r]) :
            created[r][i].image.data = lastImage[r].data

\* The output of a JPEG2000 image is a PNG file that holds other bytes than
\* the payload.
IsNormalized(e) ==
    /\ e.filename.ext = ".png"
    /\ e.data.fmt = "png"
    /\ e.data # [fmt |-> "raw", data |-> e.image.data]

\* The declared extension of an image is .jp2 or .jpx, whatever its case.
IsJpeg2000(image) == image.name[2] \in {".jp2", ".JP2", ".jpx", ".JPX"}

\* C5: for an image whose lower-cased declared extension is .jp2 or .jpx, no
\* file of extension .jp2/.jpx and no file holding the payload's own bytes is
\* written: the file a run opens for it is a .png holding the converted
\* bytes; and the step in which its conversion fails writes nothing, leaves
\* the list and the position counter alone and stays in the loop, so that
\* the remaining images are processed.
C5_Jpeg2000Normalized ==
    [][\A r \in Workers :
        /\ \A f \in DOMAIN images' : f.ext \notin {".jp2", ".JP2", ".jpx", ".JPX"}
        /\ \A i \in 1..Len(created'[r]) :
            IsJpeg2000(created'[r][i].image) => IsNormalized(created'[r][i])
        /\ (Len(log'[r]) = Len(log[r]) + 1
              /\ log'[r][Len(log'[r])].cause = "convert") =>
            /\ IsJpeg2000(lastImage'[r])
            /\ nimages'[r] = nimages[r] + 1
            /\ images' = images
            /\ created'[r] = created[r]
            /\ extracted_files'[r] = extracted_files[r]
            /\ image_count'[r] = image_count[r]
            /\ pc'[r] = "loop"]_vars

\* C5's case: the conversion of the document's first image failed and the
\* next image, a JPEG2000 one too, was written as the user image, a PNG.
C5_Witness ==
    \E r \in Workers :
        /\ pc[r] = "loop"
        /\ nimages[r] = 2
        /\ Len(log[r]) = 1 /\ log[r][1].cause = "convert"
        /\ Len(extracted_files[r]) = 1
        /\ extracted_files[r][1].prefix = "user-img-"
        /\ extracted_files[r][1].ext = ".png"
        /\ IsJpeg2000(lastImage[r])
        /\ images[extracted_files[r][1]].fmt = "png"

\* C6 as claimed: after a parse failure, at whatever point of the run, the
\* extractor has returned the empty list and the endpoint answers "No images
\* found in the PDF".
C6_ParseFailureEmptyList ==
    \A r \in Workers :
        (Returned(r) /\ Logged(r, "parse")) =>
            /\ extracted_files[r] = <<>>
            /\ pc[r] = "done" =>
                response[r].body.message = "No images found in the PDF"

\* C6, amended: a parse failure raises nothing and ends the run with the
\* list as it stands: the empty list when the reader could not be opened,
\* the names of the files written so far when a later read fails; the
\* endpoint then answers 200, with "No images found in the PDF" exactly
\* when that list is empty and with the list's files otherwise.
C6_ParseFailureReturnsListSoFar ==
    [][\A r \in Workers :
        /\ (~Logged(r, "parse") /\ Logged(r, "parse")') =>
            /\ pc'[r] = "remove"
            /\ extracted_files'[r] = IF pc[r] = "open" THEN <<>>
                                     ELSE extracted_files[r]
            /\ Len(extracted_files'[r]) = image_count'[r]
            /\ images' = images
        /\ (pc'[r] = "done" /\ Logged(r, "parse")') =>
            /\ response'[r].status = 200
            /\ extracted_files'[r] = <<>> <=>
                response'[r].body.message = "No images found in the PDF"
            /\ extracted_files'[r] # <<>> =>
                /\ response'[r].body.message = "Images extracted successfully"
                /\ IsDecimalOf(response'[r].body.totalImages,
                               Len(extracted_files'[r]))]_vars

\* C6's case: a read failed after an image was written, and the endpoint
\* answered with that image.
C6_Witness ==
    \E r \in Workers :
        /\ pc[r] = "done"
        /\ Logged(r, "parse")
        /\ Len(extracted_files[r]) >= 1
        /\ response[r].status = 200
        /\ response[r].body.message = "Images extracted successfully"

\* C2 as claimed: a run that ended without any error, on a document whose
\* N images have pairwise distinct bytes, returns exactly N file names, the
\* first prefixed "user-img-", the second "sign-img-", the others bare.
C2_DistinctImagesAllExtracted ==
    \A r \in Workers :
        (Returned(r) /\ log[r] \in {<<>>, <<[msg |-> "Failed to delete PDF",
                                            cause |-> "remove"]>>}
            /\ Cardinality(encountered[r]) = nimages[r]) =>
            /\ Len(extracted_files[r]) = nimages[r]
            /\ \A i \in 1..Len(extracted_files[r]) :
                extracted_files[r][i].prefix =
                    (CASE i = 1 -> "user-img-" [] i = 2 -> "sign-img-"
                       [] OTHER -> "")

\* C3 as claimed: a request that passed the four checks (it was given a
\* temporary name) is answered with status 200, whatever failed afterwards.
C3_AcceptedAnswered200 ==
    \A r \in Workers :
        (pc[r] = "done" /\ pdf_path[r] # 0) => response[r].status = 200

\* C7 as claimed: no step of any run changes, truncates or deletes a file
\* that exists in the images directory: a run opens only names that are not
\* there, and a file, once written, keeps its name and its contents.
C7_ImagesOnlyGrow ==
    [][/\ \A r \in Workers :
            (pc[r] = "loop" /\ pc'[r] = "write") =>
                cur'[r].filename \notin DOMAIN images
       /\ \A f \in DOMAIN images :
            /\ f \in DOMAIN images'
            /\ images[f] # Truncated => images'[f] = images[f]]_vars

\* C8 as claimed: a rejected request creates no temporary file; a request
\* that saved one is answered only by the step that tries to delete it; when
\* the deletion does not fail the file is gone when the response exists; and
\* a temporary file is deleted only by the request that saved it.
C8_TemporaryPdfLifecycle ==
    [][/\ \A r \in Workers :
            /\ (pc[r] = "idle" /\ pc'[r] = "done") => uploads' = uploads
            /\ (pc[r] \in {"open", "loop", "write"}) => pc'[r] # "done"
            /\ (pc[r] = "remove" /\ pc'[r] = "done" /\ log'[r] = log[r]) =>
                pdf_path[r] \notin DOMAIN uploads'
       /\ \A n \in DOMAIN uploads \ DOMAIN uploads' :
            \E r \in Workers :
                /\ pc[r] = "remove" /\ pc'[r] = "done"
                /\ pdf_path[r] = n
                /\ uploads[n].owner = r]_vars

\* C10 as claimed: when a run has ended, also by an exception, the returned
\* list is the sequence of the files the run created, in the order of their
\* creation, as long as the position counter says, and each of them holds
\* the complete bytes of its image.
C10_ListIsFilesCreated ==
    \A r \in Workers :
        Returned(r) =>
            /\ Len(extracted_files[r]) = image_count[r]
            /\ Len(extracted_files[r]) = Len(created[r])
            /\ \A i \in 1..Len(extracted_files[r]) :
                /\ extracted_files[r][i] = created[r][i].filename
                /\ extracted_files[r][i] \in DOMAIN images
                /\ images[extracted_files[r][i]] = created[r][i].data

====
